---------------------------- MODULE Spec2Model ----------------------------
(***************************************************************************)
(* Model of the six repository-patching scripts of rv-server:             *)
(*   fix_business_repo, fix_business_sector_repo, fix_calendar_repo,      *)
(*   fix_role_assignment_repo, fix_rbac_context_repo, quick_fix_business. *)
(*                                                                         *)
(* A file's text is a sequence of tokens.  Every token stands for a fixed *)
(* piece of text (see Tokens below); the substring tests, str.replace     *)
(* calls, line splitting and regular expressions of the scripts are       *)
(* computed on these sequences the way Python computes them on the text.  *)
(***************************************************************************)
EXTENDS Integers, Sequences, FiniteSets, TLC

(***************************************************************************)
(* Bounds of the model.                                                    *)
(***************************************************************************)
MaxLines == 3
MaxRuns == 2

(***************************************************************************)
(* Tokens and the text each one stands for.                                *)
(*   "TNE"    throw new Error(                                             *)
(*   "TNI"    throw new InfrastructureException(                           *)
(*   "SQ" '   "DQ" "   "BT" `   "END" );   "COMMA" ,   "NL" newline        *)
(*   "SP" one space   "IND" two spaces (one indentation unit)              *)
(*   "IE"     INFRASTRUCTURE_ERROR                                         *)
(*   "m"      a piece of message or code text without quotes               *)
(*   "ANCH_T" import { Repository } from 'typeorm';                        *)
(*   "ANCH_C" import { Repository, QueryRunner, Brackets } from 'typeorm'; *)
(*   "ANCH_N" import { Injectable } from '@nestjs/common';                 *)
(*   "IMP"    import { InfrastructureException }                           *)
(*                from '@shared/exceptions/shared.exceptions';             *)
(*   "IMPO"   import {        (first line of a multi-line import)          *)
(*   "K1".."K8"  the eight message substrings of quick_fix_business        *)
(*   "TR_x"   this.i18n.translate('rbac.businessContext.xError')           *)
(*   "TR_other"  this.i18n.translate('rbac.businessContext.otherError')    *)
(*   "RBAC_x_ERROR"  the error-code words of fix_rbac_context_repo         *)
(***************************************************************************)
Whitespace == {"SP", "IND", "NL"}

\* Tokens whose text contains the given quote character.
HasQuote(t, q) ==
    CASE q = "SQ" -> t \in {"SQ", "ANCH_T", "ANCH_C", "ANCH_N", "IMP",
                            "TR_save", "TR_find", "TR_findAll", "TR_exists",
                            "TR_delete", "TR_stats", "TR_other"}
      [] q = "DQ" -> t = "DQ"
      [] q = "BT" -> t = "BT"
      [] OTHER -> FALSE

\* Tokens whose text contains the marker InfrastructureException.
HasMarker(t) == t \in {"TNI", "IMP"}

\* Tokens whose text starts with 'import '.
StartsWithImport(t) == t \in {"ANCH_T", "ANCH_C", "ANCH_N", "IMP", "IMPO"}

(***************************************************************************)
(* Python string primitives on token sequences.                            *)
(***************************************************************************)
\* s[i:i+len(p)] == p
StartsAt(s, p, i) ==
    /\ i >= 1
    /\ i + Len(p) - 1 <= Len(s)
    /\ \A k \in 1..Len(p) : s[i + k - 1] = p[k]

\* p in s
Contains(s, p) == \E i \in 1..Len(s) : StartsAt(s, p, i)

RECURSIVE ReplaceFrom(_, _, _, _)
ReplaceFrom(s, old, new, i) ==
    IF i > Len(s) THEN <<>>
    ELSE IF StartsAt(s, old, i)
         THEN new \o ReplaceFrom(s, old, new, i + Len(old))
         ELSE <<s[i]>> \o ReplaceFrom(s, old, new, i + 1)

\* s.replace(old, new): every non-overlapping occurrence, left to right
StrReplace(s, old, new) == ReplaceFrom(s, old, new, 1)

RECURSIVE SplitFrom(_, _, _)
SplitFrom(s, i, cur) ==
    IF i > Len(s) THEN <<cur>>
    ELSE IF s[i] = "NL" THEN <<cur>> \o SplitFrom(s, i + 1, <<>>)
         ELSE SplitFrom(s, i + 1, Append(cur, s[i]))

\* s.split('\n')
Split(s) == SplitFrom(s, 1, <<>>)

RECURSIVE Join(_)
\* '\n'.join(lines)
Join(lines) ==
    IF Len(lines) = 0 THEN <<>>
    ELSE IF Len(lines) = 1 THEN lines[1]
         ELSE lines[1] \o <<"NL">> \o Join(Tail(lines))

RECURSIVE ReadLinesFrom(_, _, _)
ReadLinesFrom(s, i, cur) ==
    IF i > Len(s) THEN (IF cur = <<>> THEN <<>> ELSE <<cur>>)
    ELSE IF s[i] = "NL"
         THEN <<Append(cur, "NL")>> \o ReadLinesFrom(s, i + 1, <<>>)
         ELSE ReadLinesFrom(s, i + 1, Append(cur, s[i]))

\* f.readlines(): the lines with their line ends kept
ReadLines(s) == ReadLinesFrom(s, 1, <<>>)

RECURSIVE WriteLines(_)
\* f.writelines(lines): the concatenation of the list's strings
WriteLines(lines) ==
    IF Len(lines) = 0 THEN <<>> ELSE lines[1] \o WriteLines(Tail(lines))

RECURSIVE RStrip(_)
\* s.rstrip()
RStrip(s) ==
    IF Len(s) = 0 THEN s
    ELSE IF s[Len(s)] \in Whitespace THEN RStrip(SubSeq(s, 1, Len(s) - 1))
         ELSE s

RECURSIVE LStrip(_)
LStrip(s) ==
    IF Len(s) = 0 THEN s
    ELSE IF s[1] \in Whitespace THEN LStrip(Tail(s))
         ELSE s

\* s.strip()
Strip(s) == LStrip(RStrip(s))

\* s.endswith(t) for a one-token text t
EndsWith(s, t) == Len(s) > 0 /\ s[Len(s)] = t

\* 'InfrastructureException' in content
MarkerPresent(s) == \E i \in 1..Len(s) : HasMarker(s[i])

ImportLine == <<"IMP">>
DefaultCode == <<"DQ", "IE", "DQ">>

(***************************************************************************)
(* Import injection.                                                       *)
(***************************************************************************)
\* fix_business_repo, fix_rbac_context_repo (str.replace) and
\* fix_calendar_repo, fix_role_assignment_repo (re.sub of a pattern without
\* special characters): the import line is added after every occurrence of
\* the anchor, unless the marker occurs somewhere in the text.
InjectAfterAnchor(content, anchor) ==
    IF ~MarkerPresent(content)
    THEN StrReplace(content, anchor, anchor \o <<"NL">> \o ImportLine)
    ELSE content

\* Index of the first line that starts with 'import ', 0 when there is none.
FirstImportLine(lines) ==
    LET hits == {i \in 1..Len(lines) :
                    Len(lines[i]) > 0 /\ StartsWithImport(lines[i][1])}
    IN IF hits = {} THEN 0 ELSE CHOOSE i \in hits : \A j \in hits : i <= j

\* lines.insert(i, x) with i counted from 1: x becomes line i.
InsertLine(lines, i, x) ==
    SubSeq(lines, 1, i - 1) \o <<x>> \o SubSeq(lines, i, Len(lines))

\* fix_business_sector_repo: the import line is inserted after the first
\* line that starts with 'import '.
InjectAfterFirstImport(content) ==
    IF ~MarkerPresent(content)
    THEN LET lines == Split(content)
             i == FirstImportLine(lines)
         IN Join(IF i = 0 THEN lines ELSE InsertLine(lines, i + 1, ImportLine))
    ELSE content

(***************************************************************************)
(* fix_business_repo.                                                      *)
(***************************************************************************)
\* content.replace('throw new Error(', 'throw new InfrastructureException(')
RenameThrow(content) == StrReplace(content, <<"TNE">>, <<"TNI">>)

\* The loop body over the lines: a line holding the renamed constructor
\* followed by a backquote, and ending in ');', has every ');' replaced.
AppendCodeOnLine(line) ==
    IF Contains(line, <<"TNI", "BT">>) /\ EndsWith(Strip(line), "END")
    THEN StrReplace(line, <<"END">>, <<"COMMA", "SP">> \o DefaultCode \o <<"END">>)
    ELSE line

fix_business_repo(content) ==
    LET injected == InjectAfterAnchor(content, <<"ANCH_T">>)
        lines == Split(RenameThrow(injected))
    IN Join([i \in 1..Len(lines) |-> AppendCodeOnLine(lines[i])])

(***************************************************************************)
(* The regular-expression rules of fix_business_sector_repo,               *)
(* fix_calendar_repo and fix_role_assignment_repo.  A rule is              *)
(*   throw new Error\( [\s*] q ([^q]+) q [\s*] \);                         *)
(* with q its quote, ws telling whether it has the \s* parts, and out the  *)
(* quote its replacement writes around \1.                                  *)
(***************************************************************************)
RuleSingle == [q |-> "SQ", ws |-> FALSE, out |-> "DQ"]
RuleDouble == [q |-> "DQ", ws |-> FALSE, out |-> "DQ"]
\* The template rule with the replacement of the double-quoted rule.
RuleTemplateAsDouble == [q |-> "BT", ws |-> FALSE, out |-> "DQ"]
RuleTemplate == [q |-> "BT", ws |-> FALSE, out |-> "BT"]
RuleTemplateSpaced == [q |-> "BT", ws |-> TRUE, out |-> "BT"]

SectorPatterns == <<RuleSingle, RuleDouble, RuleTemplate>>
RoleAssignmentPatterns == <<RuleSingle, RuleDouble, RuleTemplate>>
CalendarPatterns == <<RuleSingle, RuleDouble, RuleTemplate, RuleTemplateSpaced>>

\* First index >= i that holds no whitespace (Len(s) + 1 when there is none).
RECURSIVE SkipWs(_, _)
SkipWs(s, i) ==
    IF i <= Len(s) /\ s[i] \in Whitespace THEN SkipWs(s, i + 1) ELSE i

\* First index >= i of a token whose text holds the quote q, 0 when none.
RECURSIVE FirstQuote(_, _, _)
FirstQuote(s, i, q) ==
    IF i > Len(s) THEN 0
    ELSE IF HasQuote(s[i], q) THEN i ELSE FirstQuote(s, i + 1, q)

\* The match of rule r that starts at index i: <<first payload index, last
\* payload index, index of the closing ');'>>, or <<>> when r does not match
\* there.  [^q]+ stops at the first quote q; that quote must be a token of its
\* own, the payload before it must not be empty, and ');' must follow.
RuleMatch(s, i, r) ==
    IF i > Len(s) \/ s[i] # "TNE" THEN <<>>
    ELSE LET a == IF r.ws THEN SkipWs(s, i + 1) ELSE i + 1
         IN IF a > Len(s) \/ s[a] # r.q THEN <<>>
            ELSE LET j == FirstQuote(s, a + 1, r.q)
                 IN IF j < a + 2 \/ s[j] # r.q THEN <<>>
                    ELSE LET b == IF r.ws THEN SkipWs(s, j + 1) ELSE j + 1
                         IN IF b > Len(s) \/ s[b] # "END" THEN <<>>
                            ELSE <<a + 1, j - 1, b>>

\* The replacement template of a rule, with \1 the captured payload.
Replacement(r, payload) ==
    <<"TNI", r.out>> \o payload \o <<r.out, "COMMA", "SP">>
        \o DefaultCode \o <<"END">>

RECURSIVE ReSubFrom(_, _, _)
ReSubFrom(s, r, i) ==
    IF i > Len(s) THEN <<>>
    ELSE LET mt == RuleMatch(s, i, r)
         IN IF mt = <<>>
            THEN <<s[i]>> \o ReSubFrom(s, r, i + 1)
            ELSE Replacement(r, SubSeq(s, mt[1], mt[2]))
                     \o ReSubFrom(s, r, mt[3] + 1)

\* re.sub(pattern, replacement, content, flags=re.MULTILINE | re.DOTALL)
ReSub(s, r) == ReSubFrom(s, r, 1)

RECURSIVE ApplyPatterns(_, _)
\* for pattern, replacement in patterns: content = re.sub(...)
ApplyPatterns(s, patterns) ==
    IF Len(patterns) = 0 THEN s
    ELSE ApplyPatterns(ReSub(s, patterns[1]), Tail(patterns))

fix_business_sector_repo(content) ==
    ApplyPatterns(InjectAfterFirstImport(content), SectorPatterns)

fix_calendar_repo(content) ==
    ApplyPatterns(InjectAfterAnchor(content, <<"ANCH_C">>), CalendarPatterns)

fix_role_assignment_repo(content) ==
    ApplyPatterns(InjectAfterAnchor(content, <<"ANCH_T">>), RoleAssignmentPatterns)

(***************************************************************************)
(* fix_rbac_context_repo: the translate keys and their codes, in the order *)
(* of the script's replace calls.                                          *)
(***************************************************************************)
RbacTable ==
    << [key |-> "TR_save",    code |-> "RBAC_SAVE_ERROR"],
       [key |-> "TR_find",    code |-> "RBAC_FIND_ERROR"],
       [key |-> "TR_findAll", code |-> "RBAC_FIND_ALL_ERROR"],
       [key |-> "TR_exists",  code |-> "RBAC_EXISTS_ERROR"],
       [key |-> "TR_delete",  code |-> "RBAC_DELETE_ERROR"],
       [key |-> "TR_stats",   code |-> "RBAC_STATS_ERROR"] >>

\* A replace call that writes the code of the first call for every key.
RbacReplaceFirstCode(content, e) ==
    StrReplace(content,
               <<"TNI", e.key, "END">>,
               <<"TNI", e.key, "COMMA", "SP", "SQ", RbacTable[1].code, "SQ", "END">>)

\* One replace call: the whole statement with the key and no code becomes
\* the statement with the entry's code in single quotes.
RbacReplace(content, e) ==
    StrReplace(content,
               <<"TNI", e.key, "END">>,
               <<"TNI", e.key, "COMMA", "SP", "SQ", e.code, "SQ", "END">>)

RECURSIVE RbacReplaceAll(_, _)
RbacReplaceAll(content, k) ==
    IF k > Len(RbacTable) THEN content
    ELSE RbacReplaceAll(RbacReplace(content, RbacTable[k]), k + 1)

fix_rbac_context_repo(content) ==
    RbacReplaceAll(RenameThrow(InjectAfterAnchor(content, <<"ANCH_N">>)), 1)

(***************************************************************************)
(* quick_fix_business.                                                     *)
(***************************************************************************)
\* The substrings of the if/elif chain, in its order, each with the code its
\* branch writes.
QuickTable ==
    << [key |-> "K1", code |-> "IE"], [key |-> "K2", code |-> "IE"],
       [key |-> "K3", code |-> "IE"], [key |-> "K4", code |-> "IE"],
       [key |-> "K5", code |-> "IE"], [key |-> "K6", code |-> "IE"],
       [key |-> "K7", code |-> "IE"], [key |-> "K8", code |-> "IE"] >>

\* Index of the first branch of the chain whose substring is in the line,
\* 0 when no branch is taken.
FirstBranch(line) ==
    LET hits == {k \in 1..Len(QuickTable) : Contains(line, <<QuickTable[k].key>>)}
    IN IF hits = {} THEN 0 ELSE CHOOSE k \in hits : \A j \in hits : k <= j

\* The string a branch assigns to lines[i+2]: eight spaces, the code in
\* double quotes, a line end, six spaces, ');' and a line end.
ClosingWithCode(k) ==
    <<"IND", "IND", "IND", "IND", "DQ", QuickTable[k].code, "DQ", "NL",
      "IND", "IND", "IND", "END", "NL">>

\* The body of the loop for index i (counted from 1).
QuickStep(lines, i) ==
    IF /\ Contains(lines[i], <<"TNI">>)
       /\ i + 2 <= Len(lines)
       /\ Strip(lines[i + 2]) = <<"END">>
    THEN LET k == FirstBranch(lines[i + 1])
             l1 == IF k # 0 THEN [lines EXCEPT ![i + 2] = ClosingWithCode(k)]
                   ELSE lines
         IN IF ~EndsWith(RStrip(l1[i + 1]), "COMMA")
            THEN [l1 EXCEPT ![i + 1] = RStrip(l1[i + 1]) \o <<"COMMA", "NL">>]
            ELSE l1
    ELSE lines

RECURSIVE QuickLoop(_, _)
\* for i, line in enumerate(lines): the list is changed while it is read
QuickLoop(lines, i) ==
    IF i > Len(lines) THEN lines ELSE QuickLoop(QuickStep(lines, i), i + 1)

quick_fix_business(content) == WriteLines(QuickLoop(ReadLines(content), 1))

(***************************************************************************)
(* The files and the message each script prints when it ends.              *)
(***************************************************************************)
BusinessFile == "typeorm-business.repository.ts"
SectorFile == "business-sector.repository.ts"
CalendarFile == "typeorm-calendar.repository.ts"
RoleAssignmentFile == "typeorm-role-assignment.repository.ts"
RbacFile == "typeorm-rbac-business-context.repository.ts"

\* filepath of each script
FilePath(script) ==
    CASE script = "fix_business_repo" -> BusinessFile
      [] script = "quick_fix_business" -> BusinessFile
      [] script = "fix_business_sector_repo" -> SectorFile
      [] script = "fix_calendar_repo" -> CalendarFile
      [] script = "fix_role_assignment_repo" -> RoleAssignmentFile
      [] script = "fix_rbac_context_repo" -> RbacFile

\* The text of the final print of each script, after the file name.
Printed(script) ==
    CASE script = "fix_business_repo" -> "traite avec succes"
      [] script = "quick_fix_business" -> "8 patterns multi-lignes corriges"
      [] script = "fix_business_sector_repo" -> "traite - 1 violation corrigee"
      [] script = "fix_calendar_repo" -> "traite - 14 violations corrigees"
      [] script = "fix_role_assignment_repo" -> "traite - 1 violation corrigee"
      [] script = "fix_rbac_context_repo" -> "traite avec succes"

(***************************************************************************)
(* The state: the file one of the scripts works on.                        *)
(*   path     the file                                                     *)
(*   content  its text on disk                                             *)
(*   prev     its text before the last run (the text itself before any)    *)
(*   hist     the scripts run so far, in order                             *)
(*   report   the message the last run printed ("" before any)             *)
(***************************************************************************)
VARIABLES path, content, prev, hist, report

vars == <<path, content, prev, hist, report>>

Scripts ==
    {"fix_business_repo", "quick_fix_business", "fix_business_sector_repo",
     "fix_calendar_repo", "fix_role_assignment_repo", "fix_rbac_context_repo"}

Paths == {FilePath(sc) : sc \in Scripts}

(***************************************************************************)
(* The input files: up to MaxLines lines, each one of the line shapes met  *)
(* in the repository files the scripts patch, ended by a line end.         *)
(***************************************************************************)
ThrowQuoted(q) == <<"IND", "TNE", q, "m", q, "END">>

BusinessLines ==
    { <<"ANCH_T">>,
      ThrowQuoted("SQ"),
      ThrowQuoted("BT"),
      <<"m", "END", "SP", "TNE", "BT", "m", "BT", "END">>,
      <<"IND", "TNE">>,
      <<"IND", "TNI">>,
      <<"IND", "IND", "BT", "K5", "m", "BT">>,
      <<"IND", "IND", "BT", "K1", "K5", "BT">>,
      <<"IND", "IND", "BT", "m", "BT">>,
      <<"IND", "END">> }

RegexLines(anchor) ==
    { <<anchor>>,
      <<"IMPO">>,
      <<"m">>,
      ThrowQuoted("SQ"),
      ThrowQuoted("DQ"),
      ThrowQuoted("BT"),
      <<"TNE", "SQ", "m", "TNE", "DQ", "m", "DQ", "END", "SQ", "END">>,
      <<"IND", "TNI", "DQ", "m", "DQ", "COMMA", "SP", "DQ", "IE", "DQ", "END">>,
      <<"IND", "TNE">>,
      <<"IND", "IND", "BT", "m", "BT">>,
      <<"IND", "END">> }

RbacLines ==
    { <<"ANCH_N">>,
      <<"m">>,
      <<"IND", "TNE", "TR_save", "END">>,
      <<"IND", "TNE", "TR_find", "END">>,
      <<"IND", "TNE", "TR_findAll", "END">>,
      <<"IND", "TNI", "TR_stats", "END">>,
      <<"IND", "TNE", "TR_other", "END">>,
      ThrowQuoted("SQ") }

LineShapes(p) ==
    CASE p = BusinessFile -> BusinessLines
      [] p = SectorFile -> RegexLines("ANCH_T")
      [] p = CalendarFile -> RegexLines("ANCH_C")
      [] p = RoleAssignmentFile -> RegexLines("ANCH_T")
      [] p = RbacFile -> RbacLines

Files(p) ==
    { Join(ls) \o <<"NL">> :
        ls \in UNION { [1..n -> LineShapes(p)] : n \in 1..MaxLines } }

Init ==
    /\ path \in Paths
    /\ content \in Files(path)
    /\ prev = content
    /\ hist = <<>>
    /\ report = ""

(***************************************************************************)
(* One action per script: a whole run, from reading the file to the print. *)
(***************************************************************************)
Ran(script, text) ==
    /\ path = FilePath(script)
    /\ Len(hist) < MaxRuns
    /\ content' = text
    /\ prev' = content
    /\ hist' = Append(hist, script)
    /\ report' = Printed(script)
    /\ UNCHANGED path

RunFixBusinessRepo == Ran("fix_business_repo", fix_business_repo(content))

RunQuickFixBusiness == Ran("quick_fix_business", quick_fix_business(content))

RunFixBusinessSectorRepo ==
    Ran("fix_business_sector_repo", fix_business_sector_repo(content))

RunFixCalendarRepo == Ran("fix_calendar_repo", fix_calendar_repo(content))

RunFixRoleAssignmentRepo ==
    Ran("fix_role_assignment_repo", fix_role_assignment_repo(content))

RunFixRbacContextRepo ==
    Ran("fix_rbac_context_repo", fix_rbac_context_repo(content))

Next ==
    \/ RunFixBusinessRepo
    \/ RunQuickFixBusiness
    \/ RunFixBusinessSectorRepo
    \/ RunFixCalendarRepo
    \/ RunFixRoleAssignmentRepo
    \/ RunFixRbacContextRepo

Spec == Init /\ [][Next]_vars

(***************************************************************************)
(* Vocabulary of the properties.                                           *)
(***************************************************************************)
Count(s, t) == Cardinality({i \in 1..Len(s) : s[i] = t})

CountSeq(s, p) == Cardinality({i \in 1..Len(s) : StartsAt(s, p, i)})

HasRun == Len(hist) >= 1

LastScript == hist[Len(hist)]

RegexScripts ==
    {"fix_business_sector_repo", "fix_calendar_repo", "fix_role_assignment_repo"}

InjectingScripts == Scripts \ {"quick_fix_business"}

\* The number of places of the text after which a script would add the
\* import line: the occurrences of its anchor line (for
\* fix_business_sector_repo one place, the first line starting with
\* 'import ', when there is such a line).
AnchorPlaces(script, s) ==
    CASE script = "fix_business_repo" -> Count(s, "ANCH_T")
      [] script = "fix_role_assignment_repo" -> Count(s, "ANCH_T")
      [] script = "fix_calendar_repo" -> Count(s, "ANCH_C")
      [] script = "fix_rbac_context_repo" -> Count(s, "ANCH_N")
      [] script = "fix_business_sector_repo" ->
            IF \E i \in 1..Len(s) :
                  StartsWithImport(s[i]) /\ (i = 1 \/ s[i - 1] = "NL")
            THEN 1 ELSE 0
      [] OTHER -> 0

\* The anchor import line of a script is in the text.
AnchorPresent(script, s) == AnchorPlaces(script, s) > 0

\* The words used as error codes.
CodeWords == {"IE"} \cup {RbacTable[k].code : k \in 1..Len(RbacTable)}

\* Index of the first ');' after index i, 0 when there is none.
RECURSIVE NextEnd(_, _)
NextEnd(s, i) ==
    IF i > Len(s) THEN 0
    ELSE IF s[i] = "END" THEN i ELSE NextEnd(s, i + 1)

\* The call opened at index i is closed by ', <quote>CODE<quote>);'.
HasCodeArgument(s, i) ==
    LET e == NextEnd(s, i)
    IN /\ e > 6
       /\ s[e - 1] \in {"DQ", "SQ"}
       /\ s[e - 2] \in CodeWords
       /\ s[e - 3] = s[e - 1]
       /\ s[e - 4] = "SP"
       /\ s[e - 5] = "COMMA"
       /\ e - 6 > i

\* A message argument starts at index i, after whitespace if any: a quoted
\* or template string or a translate call, in a call that is closed further on.
OpensMessage(s, i) ==
    LET a == SkipWs(s, i)
    IN /\ a <= Len(s)
       /\ \/ s[a] \in {"SQ", "DQ", "BT"}
          \/ \E k \in 1..Len(RbacTable) : s[a] = RbacTable[k].key
          \/ s[a] = "TR_other"
       /\ NextEnd(s, a) # 0

\* The text holds a complete throw new Error statement with a message.
HasThrowStatement(s) ==
    \E i \in 1..Len(s) : s[i] = "TNE" /\ OpensMessage(s, i + 1)

\* Index in the text of the first token of line i of its lines.
RECURSIVE LineStart(_, _)
LineStart(lines, i) ==
    IF i <= 1 THEN 1 ELSE Len(lines[i - 1]) + LineStart(lines, i - 1)

\* The number a printed message gives for the statements changed, -1 when
\* it gives none.
ReportedCount(msg) ==
    CASE msg = "traite - 1 violation corrigee" -> 1
      [] msg = "traite - 14 violations corrigees" -> 14
      [] msg = "8 patterns multi-lignes corriges" -> 8
      [] OTHER -> -1

\* A printed message that tells of a finished, successful run.
ReportsSuccess(msg) ==
    msg \in {"traite avec succes", "traite - 1 violation corrigee",
             "traite - 14 violations corrigees",
             "8 patterns multi-lignes corriges"}

\* The leading whitespace of a line.
RECURSIVE Indent(_)
Indent(line) ==
    IF Len(line) = 0 \/ line[1] \notin {"SP", "IND"} THEN <<>>
    ELSE <<line[1]>> \o Indent(Tail(line))

\* The text of a line before its first throw statement (the whole line when
\* it has none).
RECURSIVE BeforeThrow(_)
BeforeThrow(line) ==
    IF Len(line) = 0 \/ line[1] \in {"TNE", "TNI"} THEN <<>>
    ELSE <<line[1]>> \o BeforeThrow(Tail(line))

\* The text without its import declaration lines.
WithoutImport(s) ==
    StrReplace(StrReplace(s, <<"NL", "IMP">>, <<>>), <<"IMP", "NL">>, <<>>)

\* The text without code arguments, import declarations and whitespace.
Bare(s) ==
    SelectSeq(StrReplace(s, <<"COMMA", "SP", "DQ", "IE", "DQ">>, <<>>),
              LAMBDA t : t \notin Whitespace \cup {"IMP"})

\* Indices i at which the lines hold the three-line statement of
\* quick_fix_business: the constructor on line i and ');' alone on line i+2.
ThreeLineStatements(lines) ==
    {i \in 1..Len(lines) :
        /\ i + 2 <= Len(lines)
        /\ Count(lines[i], "TNI") > 0
        /\ Strip(lines[i + 2]) = <<"END">>}

\* The table entries whose substring is in the line.
EntriesIn(line) ==
    {k \in 1..Len(QuickTable) : Count(line, QuickTable[k].key) > 0}

Min(S) == CHOOSE x \in S : \A y \in S : x <= y

(***************************************************************************)
(* The properties.                                                         *)
(***************************************************************************)

\* C1: idempotence.  When a script has just been run for the second time in
\* a row, on the output of its own first run, the text it wrote is exactly
\* the text it read: rewrite(rewrite(f)) = rewrite(f).
C1_Idempotent ==
    (Len(hist) >= 2 /\ hist[Len(hist)] = hist[Len(hist) - 1])
        => content = prev

\* C2: after a run on a file that held no InfrastructureException call
\* before it, every InfrastructureException call of the file that has a
\* message and is closed (each was renamed from throw new Error by this run)
\* ends with an error-code argument: none is left renamed without a code.
C2_RenamedHasCode ==
    (HasRun /\ Count(prev, "TNI") = 0)
        => \A i \in 1..Len(content) :
              (content[i] = "TNI" /\ OpensMessage(content, i + 1))
                  => HasCodeArgument(content, i)

C4_ImportOnce ==
    (HasRun /\ LastScript \in InjectingScripts
            /\ HasThrowStatement(prev)
            /\ Count(content, "TNE") < Count(prev, "TNE"))
        => Count(content, "IMP") = 1

\* C5: anchor not found.  After a run of an injecting script on a file that
\* held a complete throw new Error statement and neither the marker nor the
\* script's anchor line, no import line was added and the message printed
\* is a warning, not a plain success.
C5_AnchorNotFoundWarned ==
    (HasRun /\ LastScript \in InjectingScripts
            /\ HasThrowStatement(prev)
            /\ ~MarkerPresent(prev) /\ ~AnchorPresent(LastScript, prev))
        => /\ Count(content, "IMP") = 0
           /\ ~ReportsSuccess(report)

\* C6: multi-line rewrite.  After a run of quick_fix_business, the first
\* three-line statement of the input (the constructor call ending line i, a
\* message of the table without trailing comma on line i+1, ');' alone on
\* line i+2) has its constructor line unchanged, its message line followed
\* by a comma, a code argument on the next line and then the closing ');',
\* and the message line and the closing line keep the indentation they had.
C6_MultiLineRewrite ==
    (HasRun /\ LastScript = "quick_fix_business")
        => LET in == ReadLines(prev)
               out == ReadLines(content)
               S == {i \in ThreeLineStatements(in) :
                        /\ EndsWith(RStrip(in[i]), "TNI")
                        /\ OpensMessage(prev, LineStart(in, i + 1))
                        /\ EntriesIn(in[i + 1]) # {}
                        /\ ~EndsWith(RStrip(in[i + 1]), "COMMA")}
           IN S # {} =>
                LET i == Min(S)
                IN /\ Len(out) >= i + 3
                   /\ out[i] = in[i]
                   /\ RStrip(out[i + 1]) = RStrip(in[i + 1]) \o <<"COMMA">>
                   /\ LET c == Strip(out[i + 2])
                      IN Len(c) = 3 /\ c[1] = "DQ" /\ c[2] \in CodeWords /\ c[3] = "DQ"
                   /\ Strip(out[i + 3]) = <<"END">>
                   /\ Indent(out[i + 1]) = Indent(in[i + 1])
                   /\ Indent(out[i + 3]) = Indent(in[i + 2])

\* C7: no-op on no match.  After a run of an injecting script on a file that
\* held no throw new Error( and its anchor line at most once, the text is the
\* input, or the input with one import line added, and a message that gives
\* a count of changed statements gives zero.
C7_NoOpOnNoMatch ==
    (HasRun /\ LastScript \in InjectingScripts /\ Count(prev, "TNE") = 0
            /\ AnchorPlaces(LastScript, prev) <= 1)
        => /\ \/ content = prev
              \/ \E i \in 0..Len(prev) :
                    content = SubSeq(prev, 1, i) \o <<"NL", "IMP">>
                                  \o SubSeq(prev, i + 1, Len(prev))
           /\ ReportedCount(report) \in {-1, 0}

\* C8: first-match code assignment.  fix_rbac_context_repo gives each
\* statement whose argument is a translate call of the table the code listed
\* with that key, once, in that statement, and adds no other code;
\* quick_fix_business gives each three-line statement whose message line
\* holds substrings of the table one code, written on the line after the
\* message: the code of the first of these entries in the script's order;
\* and it adds no other code.
C8_FirstMatchCode ==
    /\ (HasRun /\ LastScript = "fix_rbac_context_repo")
          => /\ \A k \in 1..Len(RbacTable) :
                    Count(content, RbacTable[k].code) - Count(prev, RbacTable[k].code)
                        = CountSeq(prev, <<"TNE", RbacTable[k].key, "END">>)
                            + CountSeq(prev, <<"TNI", RbacTable[k].key, "END">>)
             /\ \A k \in 1..Len(RbacTable) :
                    LET coded == <<"TNI", RbacTable[k].key, "COMMA", "SP",
                                   "SQ", RbacTable[k].code, "SQ", "END">>
                    IN CountSeq(content, coded) - CountSeq(prev, coded)
                          = CountSeq(prev, <<"TNE", RbacTable[k].key, "END">>)
                              + CountSeq(prev, <<"TNI", RbacTable[k].key, "END">>)
             /\ Count(content, "IE") = Count(prev, "IE")
    /\ (HasRun /\ LastScript = "quick_fix_business")
          => LET in == ReadLines(prev)
                 out == ReadLines(content)
                 M == {i \in ThreeLineStatements(in) : EntriesIn(in[i + 1]) # {}}
             IN /\ Count(content, "IE") - Count(prev, "IE") = Cardinality(M)
                /\ \A k \in 1..Len(RbacTable) :
                      Count(content, RbacTable[k].code) = Count(prev, RbacTable[k].code)
                /\ M # {} =>
                      LET i == Min(M)
                          first == Min(EntriesIn(in[i + 1]))
                      IN /\ Len(out) >= i + 2
                         /\ Strip(out[i + 2]) = <<"DQ", QuickTable[first].code, "DQ">>

\* C8 witness: quick_fix_business has run on a statement whose message holds
\* two substrings of the table, and the statement has got one code.
C8_Witness ==
    /\ HasRun /\ LastScript = "quick_fix_business"
    /\ Contains(prev, <<"TNI", "NL", "IND", "IND", "BT", "K1", "K5", "BT", "NL",
                        "IND", "END">>)
    /\ Contains(content, <<"K1", "K5", "BT", "COMMA", "NL",
                           "IND", "IND", "IND", "IND", "DQ", "IE", "DQ", "NL",
                           "IND", "IND", "IND", "END">>)
    /\ Count(content, "IE") = 1

\* C9: non-corruption of the surrounding code.  After a run of
\* fix_business_repo the text that stands before the first throw statement
\* of each line is the text that stood there (import lines aside); after a
\* run of fix_business_sector_repo the import line does not follow the
\* opening line of a multi-line import unless it did before.
C9_NonCorruption ==
    /\ (HasRun /\ LastScript = "fix_business_repo")
          => LET in == Split(WithoutImport(prev))
                 out == Split(WithoutImport(content))
             IN /\ Len(out) = Len(in)
                /\ \A i \in 1..Len(in) : BeforeThrow(out[i]) = BeforeThrow(in[i])
    /\ (HasRun /\ LastScript = "fix_business_sector_repo")
          => (Contains(content, <<"IMPO", "NL", "IMP">>)
                 => Contains(prev, <<"IMPO", "NL", "IMP">>))

\* C10: in quick_fix_business the comma and the code come together.  After a
\* run on a file that holds a three-line statement (the constructor call
\* ending line i, a message on line i+1, ');' alone on line i+2) and none of
\* whose lines holds a substring of the table, the text is unchanged: no
\* message line has gained a comma without a code.
C10_CommaOnlyWithCode ==
    (HasRun /\ LastScript = "quick_fix_business")
        => LET in == ReadLines(prev)
               S == {i \in ThreeLineStatements(in) :
                        /\ EndsWith(RStrip(in[i]), "TNI")
                        /\ OpensMessage(prev, LineStart(in, i + 1))}
           IN (S # {} /\ \A i \in 1..Len(in) : EntriesIn(in[i]) = {})
                  => content = prev

=============================================================================
